---- MODULE Spec2Model ----
\* The upgrade-plan file watcher of tools/cosmovisor/scanner.go: the fileWatcher
\* state, the caller's MonitorUpdate and Stop, the goroutine MonitorUpdate spawns
\* (select on the ticker and on the cancel channel), and CheckUpdate, the per-tick
\* decision routine, in the steps at which other goroutines and the file system
\* can interleave with it.
EXTENDS Integers, Sequences, FiniteSets, TLC

\* ------------------------------------------------------------------ bounds
\* calls of MonitorUpdate in one run (one goroutine and one channel pair each)
MaxArms == 2
\* largest modification time the watched file takes (time.Time{} is 0)
MaxModTime == 2
\* largest plan height and largest height the status command reports
MaxHeight == 2

\* ------------------------------------------------------------------ strings
\* A name is a sequence of one-character strings.
NameA == <<"U", "p", "A">>
NameB == <<"U", "p", "B">>
NameACaps == <<"U", "P", "A">>

\* unicode.ToLower on the characters the names and the URLs are made of
LowerChar(c) ==
    CASE c = "U" -> "u"
      [] c = "P" -> "p"
      [] c = "A" -> "a"
      [] c = "B" -> "b"
      [] c = "G" -> "g"
      [] c = "H" -> "h"
      [] c = "V" -> "v"
      [] OTHER -> c

\* strings.ToLower
ToLower(s) == [i \in DOMAIN s |-> LowerChar(s[i])]

\* a fold comparison that compares exactly (the bug of using ==)
EqualFoldExact(s, t) == s = t

\* strings.EqualFold: equality under simple case folding
EqualFold(s, t) ==
    /\ Len(s) = Len(t)
    /\ \A i \in DOMAIN s : LowerChar(s[i]) = LowerChar(t[i])

\* ------------------------------------------------------------------ plans and files
\* upgradetypes.Plan{}: the zero plan
ZeroPlan == [Name |-> <<>>, Height |-> 0]

\* the names an upgrade-info.json carries: one that equals the running upgrade's
\* name but for its case, and one that differs from it
PlanNames == {NameA, NameB}
\* the name of the running upgrade, which the caller hands to MonitorUpdate
RunningNames == {NameACaps}

\* The content of the watched file: zero bytes, bytes json.Unmarshal rejects, or
\* a JSON plan (which may fail ValidateBasic).
ValidContents == {[kind |-> "plan", Name |-> n, Height |-> h] : n \in PlanNames, h \in 1..MaxHeight}
InvalidContents ==
    {[kind |-> "empty", Name |-> <<>>, Height |-> 0],
     [kind |-> "garbage", Name |-> <<>>, Height |-> 0],
     [kind |-> "plan", Name |-> <<>>, Height |-> 1],
     [kind |-> "plan", Name |-> NameA, Height |-> 0]}

\* what the operator and the daemon write in a run: the valid plans and bytes
\* that do not decode
WrittenContents == ValidContents \cup {[kind |-> "garbage", Name |-> <<>>, Height |-> 0]}

NoFile == [exists |-> FALSE, modTime |-> 0, content |-> [kind |-> "empty", Name |-> <<>>, Height |-> 0]]

\* Plan.ValidateBasic: the name is not empty and the height is positive
ValidateBasic(p) == Len(p.Name) > 0 /\ p.Height > 0

\* parseUpgradeInfoFile without lines 284-286: the plan is not validated
parseUnvalidated(f, recaseOff) ==
    IF ~f.exists THEN [err |-> "read", plan |-> ZeroPlan]
    ELSE IF f.content.kind = "empty" THEN [err |-> "empty", plan |-> ZeroPlan]
    ELSE IF f.content.kind = "garbage" THEN [err |-> "decode", plan |-> ZeroPlan]
    ELSE LET p == [Name |-> f.content.Name, Height |-> f.content.Height]
         IN [err |-> "", plan |-> IF recaseOff THEN p ELSE [p EXCEPT !.Name = ToLower(p.Name)]]

\* parseUpgradeInfoFile: [err, plan]
parseUpgradeInfoFile(f, recaseOff) ==
    IF ~f.exists THEN [err |-> "read", plan |-> ZeroPlan]
    ELSE IF f.content.kind = "empty" THEN [err |-> "empty", plan |-> ZeroPlan]
    ELSE IF f.content.kind = "garbage" THEN [err |-> "decode", plan |-> ZeroPlan]
    ELSE LET p == [Name |-> f.content.Name, Height |-> f.content.Height]
         IN IF ~ValidateBasic(p) THEN [err |-> "invalid", plan |-> ZeroPlan]
            ELSE [err |-> "",
                  plan |-> IF recaseOff THEN p ELSE [p EXCEPT !.Name = ToLower(p.Name)]]

\* ------------------------------------------------------------------ height probe
\* What running `<currentBin> status` gives: the command fails, or it prints
\* JSON with a latest_block_height.
StatusOutputs ==
    {[kind |-> "execError", height |-> 0]}
    \cup {[kind |-> "height", height |-> h] : h \in 1..MaxHeight}

\* checkHeight with a failed probe read as the lowest height there is
checkHeightFailsLow(st) == IF st.kind = "height" THEN st.height ELSE 1

\* fileWatcher.checkHeight: the height, 0 with every error
checkHeight(st) == IF st.kind = "height" THEN st.height ELSE 0

\* ------------------------------------------------------------------ state
VARIABLES
    currentInfo,    \* fw.currentInfo: the plan last adopted
    lastModTime,    \* fw.lastModTime
    needsUpdate,    \* fw.needsUpdate
    initialized,    \* fw.initialized
    disableRecase,  \* fw.disableRecase, fixed at construction
    cancel,         \* fw.cancel: the identity of the channel the field holds
    closed,         \* the cancel channels that have been closed
    arms,           \* calls of MonitorUpdate so far
    workers,        \* the goroutine of each call of MonitorUpdate
    file,           \* the watched file, owned by the operator and the daemon
    status,         \* what the daemon's status command prints now
    aborted,        \* "" while the process runs, else the panic that ended it
    url,            \* the URL a call of getVersionAndRepoFromUrl is given
    extracted       \* what that call returned: none, or [repo, version]

vars == <<currentInfo, lastModTime, needsUpdate, initialized, disableRecase, cancel,
          closed, arms, workers, file, status, aborted, url, extracted>>

\* no call of getVersionAndRepoFromUrl has returned
NoExtract == [repo |-> <<>>, version |-> <<>>, returned |-> FALSE]

watcherState == <<currentInfo, lastModTime, needsUpdate, initialized>>

Arms == 1..MaxArms

\* A goroutine before go func() runs: pc is its position, cur the currentUpgrade
\* name it closed over, sel the cancel channel its select waits on, modTime the
\* stat of its CheckUpdate call, ret the line of the return statement its last
\* CheckUpdate call left by (0: none), ops the I/O of that call in order, emitted
\* the sends on done that completed.
IdleWorker ==
    [pc |-> "idle", cur |-> <<>>, sel |-> 0, modTime |-> 0, ret |-> 0, ops |-> <<>>,
     emitted |-> 0]

\* the return statements of CheckUpdate that return true
ReadyRets == {116, 179, 188}

Alive(w) == workers[w].pc \notin {"idle", "done"}
InCheckUpdate(w) == workers[w].pc = "parse"

\* newUpgradeFileWatcher, lines 66-77; the directory holds no upgrade-info.json yet
Init ==
    /\ currentInfo = ZeroPlan
    /\ lastModTime = 0
    /\ needsUpdate = FALSE
    /\ initialized = FALSE
    /\ disableRecase \in BOOLEAN
    /\ cancel = 0
    /\ closed = {}
    /\ arms = 0
    /\ workers = [w \in Arms |-> IdleWorker]
    /\ file = NoFile
    /\ status \in StatusOutputs
    /\ aborted = ""
    /\ url = <<>>
    /\ extracted = NoExtract

\* ------------------------------------------------------------------ the caller
\* MonitorUpdate without line 91: needsUpdate survives the re-arm
MonitorUpdateKeep(cur) ==
    /\ aborted = ""
    /\ arms < MaxArms
    /\ arms' = arms + 1
    /\ cancel' = arms + 1
    /\ workers' = [workers EXCEPT ![arms + 1] = [IdleWorker EXCEPT !.pc = "loop", !.cur = cur]]
    /\ UNCHANGED <<currentInfo, lastModTime, needsUpdate, initialized, disableRecase, closed,
                   file, status, aborted>>
    /\ UNCHANGED <<url, extracted>>

\* MonitorUpdate: a new cancel channel in fw.cancel, needsUpdate cleared, a new
\* goroutine with its own done channel. (ticker.Reset restarts the period, which
\* the model does not measure.)
MonitorUpdate(cur) ==
    /\ aborted = ""
    /\ arms < MaxArms
    /\ arms' = arms + 1
    /\ cancel' = arms + 1
    /\ needsUpdate' = FALSE
    /\ workers' = [workers EXCEPT ![arms + 1] = [IdleWorker EXCEPT !.pc = "loop", !.cur = cur]]
    /\ UNCHANGED <<currentInfo, lastModTime, initialized, disableRecase, closed,
                   file, status, aborted>>
    /\ UNCHANGED <<url, extracted>>

\* Stop: close(fw.cancel); closing a closed channel panics
Stop ==
    /\ aborted = ""
    /\ IF cancel \in closed
         THEN aborted' = "close of closed channel" /\ closed' = closed
         ELSE closed' = closed \cup {cancel} /\ aborted' = aborted
    /\ UNCHANGED <<currentInfo, lastModTime, needsUpdate, initialized, disableRecase, cancel,
                   arms, workers, file, status>>
    /\ UNCHANGED <<url, extracted>>

\* a receive that takes the signal and lets the goroutine run on
ReceiveLoops(w) ==
    /\ aborted = ""
    /\ workers[w].pc = "send"
    /\ workers[w].emitted < 2
    /\ workers' = [workers EXCEPT ![w] =
                     [IdleWorker EXCEPT !.pc = "loop", !.cur = workers[w].cur,
                                        !.emitted = workers[w].emitted + 1]]
    /\ UNCHANGED <<currentInfo, lastModTime, needsUpdate, initialized, disableRecase, cancel,
                   closed, arms, file, status, aborted>>
    /\ UNCHANGED <<url, extracted>>

\* The caller receives from the done channel of arm w: the goroutine's send on
\* line 98 completes and it returns on line 99.
Receive(w) ==
    /\ aborted = ""
    /\ workers[w].pc = "send"
    /\ workers' = [workers EXCEPT ![w] =
                     [IdleWorker EXCEPT !.pc = "done", !.emitted = workers[w].emitted + 1]]
    /\ UNCHANGED <<currentInfo, lastModTime, needsUpdate, initialized, disableRecase, cancel,
                   closed, arms, file, status, aborted>>
    /\ UNCHANGED <<url, extracted>>

\* ------------------------------------------------------------------ the environment
\* the operator or the daemon writes the watched file
WriteFile(m, c) ==
    /\ aborted = ""
    /\ file' = [exists |-> TRUE, modTime |-> m, content |-> c]
    /\ file' # file
    /\ UNCHANGED <<currentInfo, lastModTime, needsUpdate, initialized, disableRecase, cancel,
                   closed, arms, workers, status, aborted>>
    /\ UNCHANGED <<url, extracted>>

\* the watched file is removed
RemoveFile ==
    /\ aborted = ""
    /\ file.exists
    /\ file' = NoFile
    /\ UNCHANGED <<currentInfo, lastModTime, needsUpdate, initialized, disableRecase, cancel,
                   closed, arms, workers, status, aborted>>
    /\ UNCHANGED <<url, extracted>>

\* the daemon moves on: its status command prints something else
StatusChange(st) ==
    /\ aborted = ""
    /\ st # status
    /\ status' = st
    /\ UNCHANGED <<currentInfo, lastModTime, needsUpdate, initialized, disableRecase, cancel,
                   closed, arms, workers, file, aborted>>
    /\ UNCHANGED <<url, extracted>>

\* ------------------------------------------------------------------ CheckUpdate's tests
\* line 115 without the test: every call goes on to stat the file
AlreadyReadyNever(nu) == FALSE

\* line 115 with the test negated
AlreadyReadyNegated(nu) == ~nu

\* line 115: needsUpdate is already set
AlreadyReady(nu) == nu

\* line 125: stat.ModTime().After(fw.lastModTime)
ModTimeAfter(mod, last) == mod > last

\* line 163 with the zero test dropped and the comparison turned
TooEarlyTurned(currentHeight, info) == currentHeight > info.Height

\* line 163: the height is known and the plan's height is not reached
TooEarly(currentHeight, info) == currentHeight # 0 /\ currentHeight < info.Height

\* line 183 with the comparison made inclusive
HeightExceedsOrEqual(info, cur) == info.Height >= cur.Height

\* line 183 with the comparison turned
HeightExceedsTurned(info, cur) == info.Height < cur.Height

\* line 183: info.Height > fw.currentInfo.Height
HeightExceeds(info, cur) == info.Height > cur.Height

\* lines 97-100: where the goroutine goes when CheckUpdate returned
AfterCheck(ready) == IF ready THEN "send" ELSE "loop"

\* ------------------------------------------------------------------ the goroutine
\* The for loop reaches the select statement, which evaluates fw.cancel once.
EnterSelect(w) ==
    /\ aborted = ""
    /\ workers[w].pc = "loop"
    /\ workers' = [workers EXCEPT ![w] =
                     [IdleWorker EXCEPT !.pc = "select", !.cur = workers[w].cur, !.sel = cancel,
                                        !.emitted = workers[w].emitted]]
    /\ UNCHANGED <<currentInfo, lastModTime, needsUpdate, initialized, disableRecase, cancel,
                   closed, arms, file, status, aborted>>
    /\ UNCHANGED <<url, extracted>>

\* case <-fw.cancel (lines 102-103): the channel the select waits on is closed
SelectCancel(w) ==
    /\ aborted = ""
    /\ workers[w].pc = "select"
    /\ workers[w].sel \in closed
    /\ workers' = [workers EXCEPT ![w] =
                     [IdleWorker EXCEPT !.pc = "done", !.emitted = workers[w].emitted]]
    /\ UNCHANGED <<currentInfo, lastModTime, needsUpdate, initialized, disableRecase, cancel,
                   closed, arms, file, status, aborted>>
    /\ UNCHANGED <<url, extracted>>

\* case <-fw.ticker.C (line 96), a tick being due, and CheckUpdate up to its stat
\* of the file (lines 115-127): return true when needsUpdate is set, false when
\* the file is absent or not modified after lastModTime, else go on to read it.
TickStart(w) ==
    /\ aborted = ""
    /\ workers[w].pc = "select"
    /\ LET me == [workers[w] EXCEPT !.sel = 0]
       IN workers' = [workers EXCEPT ![w] =
            IF AlreadyReady(needsUpdate)
              THEN [me EXCEPT !.ret = 116, !.pc = AfterCheck(TRUE)]
            ELSE IF ~file.exists
              THEN [me EXCEPT !.ret = 122, !.ops = <<"stat">>, !.pc = AfterCheck(FALSE)]
            ELSE IF ~ModTimeAfter(file.modTime, lastModTime)
              THEN [me EXCEPT !.ret = 126, !.ops = <<"stat">>, !.pc = AfterCheck(FALSE)]
            ELSE [me EXCEPT !.ops = <<"stat">>, !.modTime = file.modTime, !.pc = "parse"]]
    /\ UNCHANGED <<currentInfo, lastModTime, needsUpdate, initialized, disableRecase, cancel,
                   closed, arms, file, status, aborted>>
    /\ UNCHANGED <<url, extracted>>

\* The I/O of lines 129-162 in its order: the file is read, the version and repo
\* are extracted, upgradeDetectedCallback posts, checkHeight runs the command.
ReadOps == <<"read", "extract", "cosmos_notify_upgrade", "status">>

\* The rest of CheckUpdate, lines 129-191. parseUpgradeInfoFile, a panic when it
\* fails; the version and repo are extracted and upgradeDetectedCallback posts
\* cosmos_notify_upgrade; checkHeight runs the status command, and too early
\* returns false; the first poll adopts the plan and is ready when the running
\* upgrade has another name; a plan higher than the adopted one is adopted and is
\* ready (upgradeHeightReachedCallback posts cosmos_upgrade_height_reached).
ParseAndDecide(w) ==
    /\ aborted = ""
    /\ workers[w].pc = "parse"
    /\ LET r == parseUpgradeInfoFile(file, disableRecase)
           info == r.plan
           me == [workers[w] EXCEPT
                    !.ops = @ \o ReadOps,
                    !.modTime = 0]
           reached == [me EXCEPT !.ops = @ \o <<"cosmos_upgrade_height_reached">>,
                                 !.pc = AfterCheck(TRUE)]
           \* the fields after lines 167-172
           first == ~initialized
           info1 == IF first THEN info ELSE currentInfo
           mod1 == IF first THEN workers[w].modTime ELSE lastModTime
       IN IF r.err # ""
            THEN /\ aborted' = "failed to parse upgrade info file"
                 /\ UNCHANGED <<workers, currentInfo, lastModTime, needsUpdate, initialized>>
          ELSE IF TooEarly(checkHeight(status), info)
            THEN /\ workers' = [workers EXCEPT ![w] =
                                  [me EXCEPT !.ret = 164, !.pc = AfterCheck(FALSE)]]
                 /\ UNCHANGED <<currentInfo, lastModTime, needsUpdate, initialized, aborted>>
          ELSE IF first /\ ~EqualFold(workers[w].cur, info1.Name)
            THEN /\ workers' = [workers EXCEPT ![w] = [reached EXCEPT !.ret = 179]]
                 /\ initialized' = TRUE
                 /\ currentInfo' = info1
                 /\ lastModTime' = mod1
                 /\ needsUpdate' = TRUE
                 /\ UNCHANGED aborted
          ELSE IF HeightExceeds(info, info1)
            THEN /\ workers' = [workers EXCEPT ![w] = [reached EXCEPT !.ret = 188]]
                 /\ initialized' = TRUE
                 /\ currentInfo' = info
                 /\ lastModTime' = workers[w].modTime
                 /\ needsUpdate' = TRUE
                 /\ UNCHANGED aborted
          ELSE /\ workers' = [workers EXCEPT ![w] =
                                [me EXCEPT !.ret = 191, !.pc = AfterCheck(FALSE)]]
               /\ initialized' = TRUE
               /\ currentInfo' = info1
               /\ lastModTime' = mod1
               /\ UNCHANGED <<needsUpdate, aborted>>
    /\ UNCHANGED <<disableRecase, cancel, closed, arms, file, status>>
    /\ UNCHANGED <<url, extracted>>

\* ------------------------------------------------------------------ specification
Next ==
    \/ \E cur \in RunningNames : MonitorUpdate(cur)
    \/ Stop
    \/ \E w \in Arms : Receive(w)
    \/ \E m \in 1..MaxModTime, c \in WrittenContents : WriteFile(m, c)
    \/ RemoveFile
    \/ \E st \in StatusOutputs : StatusChange(st)
    \/ \E w \in Arms : EnterSelect(w)
    \/ \E w \in Arms : SelectCancel(w)
    \/ \E w \in Arms : TickStart(w)
    \/ \E w \in Arms : ParseAndDecide(w)

\* The watcher from its construction, the caller free to call MonitorUpdate and
\* Stop in any order and at any time.
Spec == Init /\ [][Next]_vars

\* ------------------------------------------------------------------ the last arm cycle
\* The plans fw.currentInfo can hold: what parseUpgradeInfoFile returns
AdoptedPlans(recaseOff) ==
    {[Name |-> IF recaseOff THEN n ELSE ToLower(n), Height |-> h] :
        n \in PlanNames, h \in 1..MaxHeight}

FileStates ==
    {NoFile} \cup {[exists |-> TRUE, modTime |-> m, content |-> c] :
                     m \in 1..MaxModTime, c \in WrittenContents}

\* One arm cycle, from every state earlier cycles leave the watcher in: the
\* goroutines of all arms but the last have returned (sent: those that delivered
\* their signal), and the last arm is about to be made (arms = MaxArms - 1) or its
\* goroutine starts with needsUpdate set by a goroutine that has since delivered
\* its signal (arms = MaxArms). The closed channels of goroutines that have
\* returned are left out of closed: nothing reads them.
InitTick ==
    /\ disableRecase \in BOOLEAN
    /\ \/ /\ initialized = FALSE
          /\ currentInfo = ZeroPlan
          /\ lastModTime = 0
          /\ needsUpdate = FALSE
       \/ /\ initialized = TRUE
          /\ currentInfo \in AdoptedPlans(disableRecase)
          /\ lastModTime \in 1..MaxModTime
          /\ needsUpdate \in BOOLEAN
    /\ arms \in {MaxArms - 1, MaxArms}
    /\ cancel = arms
    /\ closed \in {{}, {cancel}}
    /\ \E sent \in SUBSET (1..(MaxArms - 1)), cur \in RunningNames :
         /\ needsUpdate => sent # {}
         /\ sent # {} => initialized
         /\ arms = MaxArms => needsUpdate
         /\ arms = MaxArms - 1 => (needsUpdate <=> MaxArms - 1 \in sent)
         /\ workers = [w \in Arms |->
              IF w < MaxArms
                THEN [IdleWorker EXCEPT !.pc = "done", !.emitted = IF w \in sent THEN 1 ELSE 0]
              ELSE IF arms = MaxArms
                THEN [IdleWorker EXCEPT !.pc = "loop", !.cur = cur]
              ELSE IdleWorker]
    /\ file \in FileStates
    /\ status \in StatusOutputs
    /\ aborted = ""
    /\ url = <<>>
    /\ extracted = NoExtract

SpecTick == InitTick /\ [][Next]_vars

\* ------------------------------------------------------------------ every file, every probe
\* Everything `<currentBin> status` can give checkHeight: the command fails
\* (line 246), its output is no JSON (line 257), the height field is empty or
\* missing (line 261) or is no number (line 265, ParseInt gives 0 with its
\* syntax error), or it is a number, 0 included.
ProbeOutputs ==
    {[kind |-> k, height |-> 0] : k \in {"execError", "badJson", "emptyHeight", "badNumber"}}
    \cup {[kind |-> "height", height |-> h] : h \in 0..MaxHeight}

\* every content the watched file can have
AllContents == ValidContents \cup InvalidContents

AllFileStates ==
    {NoFile} \cup {[exists |-> TRUE, modTime |-> m, content |-> c] :
                     m \in 1..MaxModTime, c \in AllContents}

\* The last arm cycle about to be made, from every state earlier cycles leave
\* the watcher in, with every file and every probe output.
InitEnv ==
    /\ disableRecase \in BOOLEAN
    /\ \/ /\ initialized = FALSE
          /\ currentInfo = ZeroPlan
          /\ lastModTime = 0
          /\ needsUpdate = FALSE
       \/ /\ initialized = TRUE
          /\ currentInfo \in AdoptedPlans(disableRecase)
          /\ lastModTime \in 1..MaxModTime
          /\ needsUpdate \in BOOLEAN
    /\ arms = MaxArms - 1
    /\ cancel = arms
    /\ closed = {}
    /\ workers = [w \in Arms |->
         IF w < MaxArms
           THEN [IdleWorker EXCEPT !.pc = "done", !.emitted = IF initialized THEN 1 ELSE 0]
           ELSE IdleWorker]
    /\ file \in AllFileStates
    /\ status \in ProbeOutputs
    /\ aborted = ""
    /\ url = <<>>
    /\ extracted = NoExtract

\* the actions of Next, the environment writing every content and the status
\* command giving every output
NextEnv ==
    \/ \E cur \in RunningNames : MonitorUpdate(cur)
    \/ Stop
    \/ \E w \in Arms : Receive(w)
    \/ \E m \in 1..MaxModTime, c \in AllContents : WriteFile(m, c)
    \/ RemoveFile
    \/ \E st \in ProbeOutputs : StatusChange(st)
    \/ \E w \in Arms : EnterSelect(w)
    \/ \E w \in Arms : SelectCancel(w)
    \/ \E w \in Arms : TickStart(w)
    \/ \E w \in Arms : ParseAndDecide(w)

SpecEnv == InitEnv /\ [][NextEnv]_vars

\* ------------------------------------------------------------------ scheduling
\* What the Go scheduler and the ticker give a goroutine: it takes the step it
\* can take, the ticker keeps firing and CheckUpdate returns, and a select whose
\* cancel channel is closed takes that case sooner or later (select chooses
\* among its ready cases at random). Nothing makes the caller receive from done.
Fairness ==
    \A w \in Arms :
        /\ WF_vars(EnterSelect(w))
        /\ SF_vars(SelectCancel(w))
        /\ WF_vars(TickStart(w))
        /\ WF_vars(ParseAndDecide(w))

\* one arm cycle under that scheduling
SpecFair == InitTick /\ [][Next]_vars /\ Fairness

\* ------------------------------------------------------------------ CheckUpdate called directly
\* CheckUpdate is exported and a caller can run it itself, one call after the
\* other. workers[1] and workers[2] are then the frames of the first and the
\* second call: pc "select" is the call made, "parse" the call past its stat,
\* "send" the call returned true and "loop" the call returned false.
ValidFileStates ==
    {NoFile} \cup {[exists |-> TRUE, modTime |-> m, content |-> c] :
                     m \in 1..MaxModTime, c \in ValidContents}

\* the first call is made, in every watcher state, on an absent file or a file
\* with a valid plan, with every output of the status command
InitCalls ==
    /\ disableRecase \in BOOLEAN
    /\ \/ /\ initialized = FALSE
          /\ currentInfo = ZeroPlan
          /\ lastModTime = 0
          /\ needsUpdate = FALSE
       \/ /\ initialized = TRUE
          /\ currentInfo \in AdoptedPlans(disableRecase)
          /\ lastModTime \in 1..MaxModTime
          /\ needsUpdate \in BOOLEAN
    /\ arms = 0
    /\ cancel = 0
    /\ closed = {}
    /\ \E cur \in RunningNames :
         workers = [w \in Arms |->
                      IF w = 1 THEN [IdleWorker EXCEPT !.pc = "select", !.cur = cur]
                      ELSE IdleWorker]
    /\ file \in ValidFileStates
    /\ status \in StatusOutputs
    /\ aborted = ""
    /\ url = <<>>
    /\ extracted = NoExtract

\* the first call has returned and the caller makes the second, with the same
\* currentUpgrade
CallAgain ==
    /\ aborted = ""
    /\ workers[1].pc \in {"send", "loop"}
    /\ workers[2].pc = "idle"
    /\ workers' = [workers EXCEPT ![2] =
                     [IdleWorker EXCEPT !.pc = "select", !.cur = workers[1].cur]]
    /\ UNCHANGED <<currentInfo, lastModTime, needsUpdate, initialized, disableRecase, cancel,
                   closed, arms, file, status, aborted, url, extracted>>

\* two calls of CheckUpdate in a row, the file and the daemon not moving
NextCalls ==
    \/ CallAgain
    \/ \E w \in Arms : TickStart(w)
    \/ \E w \in Arms : ParseAndDecide(w)

SpecCalls == InitCalls /\ [][NextCalls]_vars

\* ------------------------------------------------------------------ valid plans only
\* one arm cycle with a file that is absent or holds a valid plan
InitValid == InitTick /\ file \in ValidFileStates

\* the actions of Next, the operator and the daemon writing valid plans only
NextValid ==
    \/ \E cur \in RunningNames : MonitorUpdate(cur)
    \/ Stop
    \/ \E w \in Arms : Receive(w)
    \/ \E m \in 1..MaxModTime, c \in ValidContents : WriteFile(m, c)
    \/ RemoveFile
    \/ \E st \in StatusOutputs : StatusChange(st)
    \/ \E w \in Arms : EnterSelect(w)
    \/ \E w \in Arms : SelectCancel(w)
    \/ \E w \in Arms : TickStart(w)
    \/ \E w \in Arms : ParseAndDecide(w)

SpecValid == InitValid /\ [][NextValid]_vars

\* ------------------------------------------------------------------ getVersionAndRepoFromUrl
\* A URL is a sequence of one-character strings, as a name is.
\* most segments of a URL
MaxSegs == 4

SegHttps == <<"h", "t", "t", "p", "s", ":">>
SegNone == <<>>
GithubHost == <<"g", "i", "t", "h", "u", "b", ".", "c", "o", "m">>
SegGitHubCaps == <<"G", "i", "t", "H", "u", "b", ".", "c", "o", "m">>
SegOrg == <<"o", "r", "g">>
SegRepo == <<"r", "e", "p", "o">>
SegReleases == <<"r", "e", "l", "e", "a", "s", "e", "s">>
SegDownload == <<"d", "o", "w", "n", "l", "o", "a", "d">>
SegBin == <<"b", "i", "n">>
SegTag == <<"v", "1", ".", "2", ".", "3">>
SegTagSuffixed == <<"V", "1", "0", ".", "0", ".", "1", "-", "r", "c">>
SegBareNumber == <<"1", ".", "2", ".", "3">>
SegTwoParts == <<"v", "1", ".", "2">>

\* the segments URLs are made of
Segments ==
    {SegHttps, SegNone, GithubHost, SegGitHubCaps, SegOrg, SegTag, SegTagSuffixed,
     SegBareNumber, SegTwoParts}

\* strings.Join(segs, "/"): how a URL is written from its segments
RECURSIVE Join(_)
Join(segs) ==
    IF Len(segs) = 0 THEN <<>>
    ELSE IF Len(segs) = 1 THEN segs[1]
    ELSE Join(SubSeq(segs, 1, Len(segs) - 1)) \o <<"/">> \o segs[Len(segs)]

\* the URL of the release binary
ExampleUrl ==
    Join(<<SegHttps, SegNone, GithubHost, SegOrg, SegRepo, SegReleases, SegDownload,
           SegTag, SegBin>>)

SegSeqs == UNION {[1..n -> Segments] : n \in 1..MaxSegs}

\* the URLs getVersionAndRepoFromUrl is given
Urls == {Join(segs) : segs \in SegSeqs} \cup {ExampleUrl}

\* line 210, strings.Split(url, "/"): the segments between the slashes, one more
\* than there are slashes
RECURSIVE Split(_)
Split(s) ==
    LET slashes == {i \in DOMAIN s : s[i] = "/"}
    IN IF slashes = {} THEN <<s>>
       ELSE LET i == CHOOSE j \in slashes : \A k \in slashes : j <= k
            IN <<SubSeq(s, 1, i - 1)>> \o Split(SubSeq(s, i + 1, Len(s)))

IsDigit(c) == c \in {"0", "1", "2", "3", "4", "5", "6", "7", "8", "9"}

\* where the run of digits that starts at position i of s ends (i: there is none)
RECURSIVE DigitsEnd(_, _)
DigitsEnd(s, i) == IF i <= Len(s) /\ IsDigit(s[i]) THEN DigitsEnd(s, i + 1) ELSE i

\* line 224, regexp.MatchString(`^[vV]\d+\.\d+\.\d+`, str): v or V, digits, a
\* dot, digits, a dot, digits, and then anything
MatchVersion(str) ==
    /\ Len(str) >= 1
    /\ str[1] \in {"v", "V"}
    /\ LET a == DigitsEnd(str, 2)
       IN /\ a > 2
          /\ a <= Len(str)
          /\ str[a] = "."
          /\ LET b == DigitsEnd(str, a + 1)
             IN /\ b > a + 1
                /\ b <= Len(str)
                /\ str[b] = "."
                /\ DigitsEnd(str, b + 1) > b + 1

\* line 218 with the repo name left out: one segment after the host
RepoTakesOne(idx, githubIdx) == githubIdx < 0 \/ idx <= githubIdx + 1

\* line 218: the segment goes into repo
RepoTakes(idx, githubIdx) == githubIdx < 0 \/ idx <= githubIdx + 2

\* lines 214-229, the loop from index idx (counted from 0, as Go does) with the
\* githubIdx and the repo the iterations before it left: [githubIdx, repo, ver]
RECURSIVE ScanFrom(_, _, _, _)
ScanFrom(substrings, idx, githubIdx, repo) ==
    IF idx >= Len(substrings) THEN [githubIdx |-> githubIdx, repo |-> repo, ver |-> <<>>]
    ELSE LET str == substrings[idx + 1]
             g == IF EqualFold(str, GithubHost) THEN idx ELSE githubIdx
             r == IF RepoTakes(idx, g)
                    THEN (IF idx > 0 THEN repo \o <<"/">> ELSE repo) \o str
                    ELSE repo
         IN IF MatchVersion(str)
              THEN [githubIdx |-> g, repo |-> r, ver |-> str]
              ELSE ScanFrom(substrings, idx + 1, g, r)

\* getVersionAndRepoFromUrl: the repo and the version it returns
getVersionAndRepoFromUrl(u) ==
    LET res == ScanFrom(Split(u), 0, -1, <<>>)
    IN [repo |-> IF res.githubIdx < 0 THEN <<>> ELSE res.repo,
        version |-> res.ver,
        returned |-> TRUE]

\* a watcher as constructed, about to extract from a URL of a plan's binaries
InitUrl ==
    /\ currentInfo = ZeroPlan
    /\ lastModTime = 0
    /\ needsUpdate = FALSE
    /\ initialized = FALSE
    /\ disableRecase = FALSE
    /\ cancel = 0
    /\ closed = {}
    /\ arms = 0
    /\ workers = [w \in Arms |-> IdleWorker]
    /\ file = NoFile
    /\ status = [kind |-> "execError", height |-> 0]
    /\ aborted = ""
    /\ url \in Urls
    /\ extracted = NoExtract

\* line 140: the call of getVersionAndRepoFromUrl returns
Extract ==
    /\ ~extracted.returned
    /\ extracted' = getVersionAndRepoFromUrl(url)
    /\ UNCHANGED <<currentInfo, lastModTime, needsUpdate, initialized, disableRecase, cancel,
                   closed, arms, workers, file, status, aborted, url>>

NextUrl == Extract

SpecUrl == InitUrl /\ [][NextUrl]_vars

\* ------------------------------------------------------------------ steps of a goroutine
\* goroutine w takes a tick and runs lines 115-127 of CheckUpdate
TickStartStep(w) == workers[w].pc = "select" /\ workers'[w].pc \in {"send", "loop", "parse"}

\* goroutine w runs lines 129-191 of CheckUpdate and returns from it
DecideStep(w) == workers[w].pc = "parse" /\ workers'[w].pc \in {"send", "loop"}

\* what CheckUpdate reads from the file and the status command in this state
PlanRead == parseUpgradeInfoFile(file, disableRecase)
HeightProbed == checkHeight(status)

Ready(r) == r \in ReadyRets
NotReady(r) == r # 0 /\ r \notin ReadyRets

\* ------------------------------------------------------------------ claims
\* C1 as stated: a tick that reads a valid plan higher than currentInfo.Height
\* returns ready and adopts the plan.
C1_HigherPlanAlwaysReady ==
    [][\A w \in Arms :
         (DecideStep(w) /\ PlanRead.err = "" /\ PlanRead.plan.Height > currentInfo.Height)
           => (Ready(workers'[w].ret) /\ currentInfo' = PlanRead.plan)]_vars

\* C1 amended: a tick that reads a valid plan higher than currentInfo.Height,
\* with the probed height unknown (0) or at least the plan's height, and the
\* watcher initialized or the plan's name differing from the running upgrade's
\* name, returns ready, adopts the plan, sets needsUpdate, and its goroutine goes
\* to send its one ready signal.
C1_HigherPlanReady ==
    [][\A w \in Arms :
         (/\ DecideStep(w)
          /\ PlanRead.err = ""
          /\ PlanRead.plan.Height > currentInfo.Height
          /\ (HeightProbed = 0 \/ HeightProbed >= PlanRead.plan.Height)
          /\ (initialized \/ ToLower(workers[w].cur) # ToLower(PlanRead.plan.Name)))
           => (/\ Ready(workers'[w].ret)
               /\ currentInfo' = PlanRead.plan
               /\ lastModTime' = workers[w].modTime
               /\ needsUpdate'
               /\ workers'[w].pc = "send"
               /\ workers'[w].emitted = 0)]_vars

\* C1 witness: a goroutine has returned ready from line 188 with a plan higher
\* than the lowest, and waits to send its signal.
C1_Witness ==
    \E w \in Arms :
        /\ workers[w].pc = "send"
        /\ workers[w].ret = 188
        /\ needsUpdate
        /\ currentInfo.Height > 1

\* C2: with the watcher initialized and needsUpdate false, a tick that reads a
\* valid plan whose height is at most currentInfo.Height returns not-ready and
\* leaves currentInfo unchanged.
C2_LowerPlanNotReady ==
    [][\A w \in Arms :
         (/\ DecideStep(w)
          /\ initialized
          /\ ~needsUpdate
          /\ PlanRead.err = ""
          /\ PlanRead.plan.Height <= currentInfo.Height)
           => (NotReady(workers'[w].ret) /\ currentInfo' = currentInfo)]_vars

\* C2 witness: a goroutine returned not-ready from line 191 having read a plan
\* of another name than the adopted one, at the adopted plan's height.
C2_Witness ==
    \E w \in Arms :
        /\ workers[w].pc = "loop"
        /\ workers[w].ret = 191
        /\ initialized
        /\ file.exists
        /\ PlanRead.err = ""
        /\ PlanRead.plan.Name # currentInfo.Name
        /\ PlanRead.plan.Height = currentInfo.Height
        /\ file.modTime > lastModTime

\* C3 as stated: with the watched file absent, CheckUpdate returns not-ready and
\* leaves the watcher state unchanged, whatever the prior state.
C3_AbsentAlwaysNotReady ==
    [][\A w \in Arms :
         (TickStartStep(w) /\ ~file.exists)
           => (NotReady(workers'[w].ret) /\ UNCHANGED watcherState)]_vars

\* C3 amended: with the watched file absent, CheckUpdate leaves the watcher
\* state unchanged, whatever the prior state; it returns not-ready when
\* needsUpdate is false and ready when needsUpdate is already true.
C3_AbsentLeavesState ==
    [][\A w \in Arms :
         (TickStartStep(w) /\ ~file.exists)
           => (/\ UNCHANGED watcherState
               /\ ~needsUpdate => NotReady(workers'[w].ret)
               /\ needsUpdate => Ready(workers'[w].ret))]_vars

\* C3 witness: a goroutine returned from line 122 and the file is absent.
C3_Witness ==
    \E w \in Arms :
        /\ workers[w].pc = "loop"
        /\ workers[w].ret = 122
        /\ workers[w].ops = <<"stat">>
        /\ ~file.exists

\* C4: with needsUpdate true, a CheckUpdate call returns ready at once, with no
\* stat, read, extraction, probe or notice, and leaves the watcher state as it is.
C4_ReadyShortCircuit ==
    [][\A w \in Arms :
         (TickStartStep(w) /\ needsUpdate)
           => (/\ Ready(workers'[w].ret)
               /\ workers'[w].ops = <<>>
               /\ workers'[w].pc = "send"
               /\ UNCHANGED watcherState)]_vars

\* C4 witness: a goroutine returned from line 116 having done no I/O.
C4_Witness ==
    \E w \in Arms :
        /\ workers[w].pc = "send"
        /\ workers[w].ret = 116
        /\ workers[w].ops = <<>>
        /\ needsUpdate

\* C5: on the first poll that passes the height gate (initialized false), the
\* call returns ready and sets needsUpdate when the plan's name differs from the
\* running upgrade's name but for case; when the names are equal but for case it
\* returns not-ready with initialized true and the plan adopted.
C5_FirstPoll ==
    [][\A w \in Arms :
         (/\ DecideStep(w)
          /\ ~initialized
          /\ PlanRead.err = ""
          /\ (HeightProbed = 0 \/ HeightProbed >= PlanRead.plan.Height))
           => IF ToLower(workers[w].cur) # ToLower(PlanRead.plan.Name)
                THEN Ready(workers'[w].ret) /\ needsUpdate'
                ELSE /\ NotReady(workers'[w].ret)
                     /\ initialized'
                     /\ currentInfo' = PlanRead.plan]_vars

\* C5 witness: a goroutine returned ready from line 179, which only the first
\* poll reaches.
C5_Witness ==
    \E w \in Arms :
        /\ workers[w].pc = "send"
        /\ workers[w].ret = 179
        /\ needsUpdate
        /\ initialized
        /\ ToLower(workers[w].cur) # ToLower(currentInfo.Name)

\* C6: when the probe reports a known height below the plan's height,
\* CheckUpdate returns not-ready, whatever initialized and the names are.
C6_HeightGate ==
    [][\A w \in Arms :
         (/\ DecideStep(w)
          /\ PlanRead.err = ""
          /\ HeightProbed > 0
          /\ HeightProbed < PlanRead.plan.Height)
           => NotReady(workers'[w].ret)]_vars

\* C6 witness: a goroutine returned from line 164 with the status height below
\* the height of the plan in the file.
C6_Witness ==
    \E w \in Arms :
        /\ workers[w].pc = "loop"
        /\ workers[w].ret = 164
        /\ PlanRead.err = ""
        /\ HeightProbed > 0
        /\ HeightProbed < PlanRead.plan.Height

\* C7: in an arm cycle the goroutine sends at most one ready signal, sends it
\* only after a CheckUpdate call that returned ready, and takes no step after
\* the send (it has returned).
C7_OneSignal ==
    [][\A w \in Arms :
         /\ workers'[w].emitted <= 1
         /\ workers'[w].emitted # workers[w].emitted
              => (/\ workers[w].pc = "send"
                  /\ Ready(workers[w].ret)
                  /\ workers'[w].pc = "done")
         /\ (workers'[w].pc = "send" /\ workers[w].pc # "send") => Ready(workers'[w].ret)
         /\ workers[w].pc = "done" => workers'[w] = workers[w]]_vars

\* C7 witness: the goroutine of the last arm has sent its signal and returned.
C7_Witness == workers[MaxArms].pc = "done" /\ workers[MaxArms].emitted = 1

C9_OneWorker ==
    /\ Cardinality({w \in Arms : Alive(w)}) <= 1
    /\ Cardinality({w \in Arms : InCheckUpdate(w)}) <= 1

\* C10 as stated: the caller writes fw.cancel or clears fw.needsUpdate only
\* while no goroutine is running.
C10_CallerWritesUnobserved ==
    [][(cancel' # cancel \/ (needsUpdate /\ ~needsUpdate'))
         => \A w \in Arms : ~Alive(w)]_vars

\* ------------------------------------------------------------------ claims on errors
\* goroutine w runs lines 129-191 of CheckUpdate: it returns from it or panics
ReadStep(w) ==
    /\ workers[w].pc = "parse"
    /\ \/ workers'[w].pc \in {"send", "loop"}
       \/ aborted = "" /\ aborted' = "failed to parse upgrade info file"

\* the status command gives no height or the height 0
HeightUnknown == status.kind # "height" \/ status.height = 0

BadContent == file.exists /\ file.content \in InvalidContents

\* the I/O a goroutine's CheckUpdate call has done
OpsOf(w) == {workers[w].ops[i] : i \in DOMAIN workers[w].ops}

\* C12: a tick that found the file modified after lastModTime and reads content
\* that is empty, not decodable, or a plan with an empty name or a height that is
\* not positive, aborts the process; it has dispatched no notice and run no
\* probe, and currentInfo, lastModTime, needsUpdate and initialized are as they
\* were.
C12_BadFileAborts ==
    [][\A w \in Arms :
         (ReadStep(w) /\ BadContent)
           => (/\ aborted' = "failed to parse upgrade info file"
               /\ workers'[w].pc = "parse"
               /\ workers'[w].ops = <<"stat">>
               /\ UNCHANGED watcherState)]_vars

\* C12 witness: the process has aborted with a goroutine in CheckUpdate past
\* its stat, the file holding a plan that fails validation.
C12_Witness ==
    \E w \in Arms :
        /\ aborted = "failed to parse upgrade info file"
        /\ workers[w].pc = "parse"
        /\ OpsOf(w) = {"stat"}
        /\ file.exists
        /\ file.content.kind = "plan"
        /\ file.content.Height = 0
        /\ workers[w].modTime > lastModTime

\* ------------------------------------------------------------------ claims on the extractor
\* the positions of the segments that are version tags, and of those that equal
\* github.com but for case
TagIdx(segs) == {i \in DOMAIN segs : MatchVersion(segs[i])}
HostIdx(segs) == {i \in DOMAIN segs : ToLower(segs[i]) = GithubHost}

Least(S) == CHOOSE i \in S : \A j \in S : i <= j
Greatest(S) == CHOOSE i \in S : \A j \in S : i >= j

\* the first segment that is a version tag, empty when there is none
FirstTag(segs) == IF TagIdx(segs) = {} THEN <<>> ELSE segs[Least(TagIdx(segs))]

\* the segments of segs at the positions idxs, in their order
RECURSIVE Pick(_, _)
Pick(segs, idxs) ==
    IF idxs = {} THEN <<>>
    ELSE Pick(segs, idxs \ {Greatest(idxs)}) \o <<segs[Greatest(idxs)]>>

\* C13 as stated: for every URL the version is the first segment that is a
\* version tag (empty if none), and the repo is the segments up to and including
\* the second after the github.com segment, joined by slashes, and empty when no
\* segment equals github.com.
C13_RepoUpToTwoAfterHost ==
    extracted.returned =>
        LET segs == Split(url)
        IN /\ extracted.version = FirstTag(segs)
           /\ extracted.repo =
                IF HostIdx(segs) = {} THEN <<>>
                ELSE LET last == Least(HostIdx(segs)) + 2
                     IN Join(SubSeq(segs, 1, IF last < Len(segs) THEN last ELSE Len(segs)))

\* C13 amended: the version is the first segment that is a version tag (v or V,
\* digits, dot, digits, dot, digits, then anything; empty if none), and the scan
\* stops at that segment. The repo is empty when no segment up to there equals
\* github.com but for case; else it is, joined by slashes, the segments up to
\* there that come before every github.com segment or at most two positions
\* after the last github.com segment before or at them. The release URL gives
\* https://github.com/org/repo and v1.2.3.
C13_RepoWithinScan ==
    extracted.returned =>
        LET segs == Split(url)
            stop == IF TagIdx(segs) = {} THEN Len(segs) ELSE Least(TagIdx(segs))
            hosts(i) == {j \in HostIdx(segs) : j <= i}
            kept == {i \in 1..stop : hosts(i) = {} \/ i <= Greatest(hosts(i)) + 2}
        IN /\ extracted.version = FirstTag(segs)
           /\ extracted.repo = IF hosts(stop) = {} THEN <<>> ELSE Join(Pick(segs, kept))
           /\ (Cardinality(HostIdx(segs)) = 1 /\ stop >= Least(HostIdx(segs)) + 2)
                => extracted.repo = Join(SubSeq(segs, 1, Least(HostIdx(segs)) + 2))
           /\ url = ExampleUrl
                => /\ extracted.repo = Join(<<SegHttps, SegNone, GithubHost, SegOrg, SegRepo>>)
                   /\ extracted.version = SegTag

\* C13 witness: the call on the release URL has returned its repo and version.
C13_Witness ==
    /\ url = ExampleUrl
    /\ extracted.returned
    /\ extracted.repo = Join(<<SegHttps, SegNone, GithubHost, SegOrg, SegRepo>>)
    /\ extracted.version = SegTag

\* ------------------------------------------------------------------ claims on the notices
\* how often x is in the I/O log, and whether an x comes before a y in it
Count(ops, x) == Cardinality({i \in DOMAIN ops : ops[i] = x})
Before(ops, x, y) == \E i, j \in DOMAIN ops : i < j /\ ops[i] = x /\ ops[j] = y

\* goroutine w returns from CheckUpdate
TickEnds(w) == workers[w].pc \in {"select", "parse"} /\ workers'[w].pc \in {"send", "loop"}

\* C14 as stated: a tick that reads a plan posts cosmos_notify_upgrade once, before it
\* runs the status command and whatever the height; a tick posts
\* cosmos_upgrade_height_reached once when it changes needsUpdate from false to
\* true and not at all when it does not, and after its cosmos_notify_upgrade.
C14_Notices ==
    [][\A w \in Arms :
         /\ DecideStep(w)
              => /\ Count(workers'[w].ops, "cosmos_notify_upgrade") = 1
                 /\ Count(workers'[w].ops, "status") = 1
                 /\ Before(workers'[w].ops, "cosmos_notify_upgrade", "status")
         /\ TickEnds(w)
              => /\ Count(workers'[w].ops, "cosmos_upgrade_height_reached")
                      = IF ~needsUpdate /\ needsUpdate' THEN 1 ELSE 0
                 /\ Count(workers'[w].ops, "cosmos_upgrade_height_reached") > 0
                      => Before(workers'[w].ops, "cosmos_notify_upgrade",
                                "cosmos_upgrade_height_reached")]_vars

\* ------------------------------------------------------------------ claims on cancellation
\* C15 as stated: once Stop has closed the cancel channel of an arm cycle, the
\* goroutine of that cycle exits sooner or later (or the process has ended),
\* whether or not the caller receives from done.
C15_StopEndsWorker ==
    \A w \in Arms : (Alive(w) /\ w \in closed) ~> (~Alive(w) \/ aborted # "")

\* ------------------------------------------------------------------ claims on repeated calls
\* C16: with the file, the status command and currentUpgrade as they were, the
\* second of two CheckUpdate calls in a row leaves the watcher state the first
\* call left, and returns ready exactly when the first call returned ready.
C16_Idempotent ==
    [][/\ workers[2].pc \in {"select", "parse"} => UNCHANGED watcherState
       /\ (workers[2].pc \in {"select", "parse"} /\ workers'[2].pc \in {"send", "loop"})
            => (Ready(workers'[2].ret) <=> Ready(workers[1].ret))]_vars

\* C16 witness: the first call adopted the plan on the first poll and returned
\* not-ready from line 191, and the second returned not-ready from line 126.
C16_Witness ==
    /\ workers[1].pc = "loop"
    /\ workers[1].ret = 191
    /\ workers[2].pc = "loop"
    /\ workers[2].ret = 126
    /\ initialized
    /\ file.exists
    /\ file.modTime = lastModTime
    /\ PlanRead.plan = currentInfo

\* ------------------------------------------------------------------ claims on the file race
\* C17 as stated: with the file removed, created and replaced at any time, and
\* holding a valid plan whenever it is there, no tick aborts the process on
\* reading it.
C17_AbsenceNeverAborts == aborted # "failed to parse upgrade info file"

\* ------------------------------------------------------------------ claims on the watcher state
\* C18 as stated: a CheckUpdate call returns ready exactly when needsUpdate is
\* true as it returns, and needsUpdate is true only with initialized true.
C18_ResultIsNeedsUpdate ==
    [][/\ \A w \in Arms : TickEnds(w) => (Ready(workers'[w].ret) <=> needsUpdate')
       /\ needsUpdate' => initialized']_vars

\* C19 as stated: currentInfo and lastModTime change in the same step or not at
\* all, lastModTime grows strictly when it changes, and the height of
\* currentInfo never falls and grows strictly at every adoption but the first.
C19_Monotonic ==
    [][/\ (currentInfo' # currentInfo) <=> (lastModTime' # lastModTime)
       /\ lastModTime' # lastModTime => lastModTime' > lastModTime
       /\ currentInfo'.Height >= currentInfo.Height
       /\ (initialized /\ currentInfo' # currentInfo)
            => currentInfo'.Height > currentInfo.Height]_vars

\* a tick must read the file: needsUpdate is false and the file is there with a
\* modification time after lastModTime
RereadDue == ~needsUpdate /\ file.exists /\ file.modTime > lastModTime

\* goroutine w reads a plan and rejects it: at the height gate (line 164), or,
\* initialized, because the plan is not higher than the adopted one (line 191)
Rejects(w) ==
    /\ DecideStep(w)
    /\ workers'[w].ret = 164 \/ (initialized /\ workers'[w].ret = 191)

\* C20 as stated: a tick that reads a plan and rejects it leaves currentInfo,
\* lastModTime, initialized and needsUpdate as they were; so, the file being as
\* the tick found it, the next tick has to read the file again, and every tick
\* that has to reads it and posts cosmos_notify_upgrade again.
C20_RejectedTickRereads ==
    [][\A w \in Arms :
         /\ Rejects(w) => UNCHANGED watcherState
         /\ (Rejects(w) /\ file.modTime = workers[w].modTime) => RereadDue'
         /\ (TickStartStep(w) /\ RereadDue)
              => (workers'[w].pc = "parse" /\ workers'[w].ops = <<"stat">>)
         /\ DecideStep(w)
              => {"read", "cosmos_notify_upgrade"} \subseteq
                    {workers'[w].ops[i] : i \in DOMAIN workers'[w].ops}]_vars

====
